---- MODULE Spec2Model ----
(***************************************************************************)
(* A model of renderman's render / group / reconcile pipeline              *)
(* (src/src/renderman/core.py).                                            *)
(*                                                                         *)
(* Python values are modelled as records tagged with their class (cls), so *)
(* that an attribute access on the wrong class is an AttributeError, as in *)
(* Python.  Text is a sequence of one-character strings.  A call either    *)
(* returns (Ok) or raises (Raise).                                         *)
(***************************************************************************)
EXTENDS Integers, Sequences, FiniteSets, TLC

VARIABLES
    pc,            \* position of the running command
    config,        \* Config.renderman.apps: the loaded source model
    app_names,     \* requested app names
    source_types,  \* requested source types
    remote,        \* what the HTTP server answers for each URL
    renders,       \* what get_renders returned (or raised)
    manifests,     \* the list of Manifest objects
    documents,     \* Manifest.document of each manifest (or what it raised)
    output_dir,    \* the live output directory tree
    staging_dir,   \* the temporary staging directory tree
    result,        \* what the running reconcile operation returned (or raised)
    paths,         \* update_manifests' local variable paths
    calls          \* completed reconcile calls, oldest first

vars == <<pc, config, app_names, source_types, remote, renders, manifests,
          documents, output_dir, staging_dir, result, paths, calls>>

-----------------------------------------------------------------------------
(* Bounds *)

MaxSources == 2
MaxTools == 1
MaxCoreLen == 3
MaxRenders == 3
MaxCalls == 2

-----------------------------------------------------------------------------
(* Python values *)

None == [cls |-> "NoneType"]
Str(s) == [cls |-> "str", value |-> s]
Exception(kind) == [cls |-> "Exception", kind |-> kind]

Ok(v) == [ok |-> TRUE, val |-> v]
Raise(kind) == [ok |-> FALSE, exc |-> kind]

NotRun == [ok |-> FALSE, exc |-> "not run"]

SeqsUpTo(S, n) == UNION {[1..k -> S] : k \in 0..n}

RECURSIVE Concat(_)
Concat(ss) == IF ss = <<>> THEN <<>> ELSE Head(ss) \o Concat(Tail(ss))

-----------------------------------------------------------------------------
(* Global constants of core.py *)

HELMFILE_NAME == "helmfile.yaml"
SOURCE_TYPES == <<"bundle", "kustomization", "release">>
YAML_SEPARATOR == <<"-", "-", "-">>
SOURCE_DIR == ""

-----------------------------------------------------------------------------
(* Strings with replacement fields, and str.format                          *)
(*                                                                         *)
(* A configured string is a scheme prefix ("http" or "") followed by        *)
(* segments: literal text, or a replacement field.  "{0[k]}" is an          *)
(* "index" field, "{k}" a "named" field.                                    *)

Lit(t) == [lit |-> t]
Field(style, key) == [style |-> style, key |-> key]
IsField(seg) == "style" \in DOMAIN seg
RawStr(scheme, segs) == [scheme |-> scheme, segs |-> segs]

\* str(x) of a configured string: its characters, braces included.
FieldText(f) == IF f.style = "index" THEN <<"{0[", f.key, "]}">> ELSE <<"{", f.key, "}">>

RECURSIVE RawText(_)
RawText(segs) ==
    IF segs = <<>> THEN <<>>
    ELSE (IF IsField(Head(segs)) THEN FieldText(Head(segs)) ELSE <<Head(segs).lit>>)
         \o RawText(Tail(segs))

\* s.format(d) with the dict d as the only, positional, argument: "{0[k]}"
\* looks k up in d, "{k}" looks for a keyword argument and finds none.
RECURSIVE FormatSegs(_, _)
FormatSegs(segs, d) ==
    IF segs = <<>> THEN Ok(<<>>)
    ELSE LET seg == Head(segs)
             rest == FormatSegs(Tail(segs), d)
         IN  IF IsField(seg)
             THEN IF seg.style = "index" /\ seg.key \in DOMAIN d
                  THEN IF rest.ok THEN Ok(d[seg.key] \o rest.val) ELSE rest
                  ELSE Raise("KeyError")
             ELSE IF rest.ok THEN Ok(<<seg.lit>> \o rest.val) ELSE rest

Format(s, d) ==
    LET r == FormatSegs(s.segs, d)
    IN  IF r.ok THEN Ok([scheme |-> s.scheme, toks |-> r.val]) ELSE r

RECURSIVE FormatAll(_, _)
FormatAll(ss, d) ==
    IF ss = <<>> THEN Ok(<<>>)
    ELSE LET h == Format(Head(ss), d)
         IN  IF ~h.ok THEN h
             ELSE LET t == FormatAll(Tail(ss), d)
                  IN  IF t.ok THEN Ok(<<h.val>> \o t.val) ELSE t

startswith_http(source) == source.scheme = "http"

-----------------------------------------------------------------------------
(* Config file schema *)

\* data = {k: v.format(self.data) for k, v in self.data.items()}
Bundle_data(bundle) ==
    LET raw == [k \in DOMAIN bundle.data |-> RawText(bundle.data[k].segs)]
        fmt == [k \in DOMAIN bundle.data |-> Format(bundle.data[k], raw)]
    IN  IF \E k \in DOMAIN bundle.data : ~fmt[k].ok
        THEN Raise("KeyError")
        ELSE Ok([k \in DOMAIN bundle.data |-> fmt[k].val.toks])

Bundle_paths(bundle) ==
    LET data == Bundle_data(bundle)
    IN  IF ~data.ok THEN data
        ELSE FormatAll(SelectSeq(bundle.sources, LAMBDA s : ~startswith_http(s)), data.val)

Bundle_urls(bundle) ==
    LET data == Bundle_data(bundle)
    IN  IF ~data.ok THEN data
        ELSE FormatAll(SelectSeq(bundle.sources, LAMBDA s : startswith_http(s)), data.val)

-----------------------------------------------------------------------------
(* The collaborators: files on disk, the HTTP server, kustomize, helmfile *)

Files == (<<"a.yaml">> :> <<"A">>) @@ (<<"prod", "/x.yaml">> :> <<"X">>)

\* open(file_path, "r").read()
ReadFile(file_path) ==
    IF file_path.toks \in DOMAIN Files THEN Ok(Files[file_path.toks])
    ELSE Raise("FileNotFoundError")

\* requests.get(url); response.raise_for_status(); response.text
HttpGet(url, server) ==
    IF url.toks \notin DOMAIN server THEN Raise("ConnectionError")
    ELSE IF server[url.toks].status >= 400 THEN Raise("HTTPError")
    ELSE Ok(server[url.toks].text)

DefaultRemote ==
    (<<"//h/b.yaml">> :> [status |-> 200,
                          text |-> <<"-", "-", "-", "\n", "B", "\n", "-", "-", "-", "\n">>])
    @@ (<<"//h/e.yaml">> :> [status |-> 404, text |-> <<>>])

run_kustomize_build_cmd(kustomization) ==
    IF kustomization.source = RawStr("", <<Lit("base")>>) THEN Ok(<<"K">>)
    ELSE Raise("CalledProcessError")

\* path.join(SOURCE_DIR, HELMFILE_NAME)
DefaultHelmfilePath == [scheme |-> "", toks |-> <<SOURCE_DIR, HELMFILE_NAME>>]

run_helmfile_template_cmd(helmfile_path, release_name) ==
    IF helmfile_path = DefaultHelmfilePath THEN Ok(<<"R">>)
    ELSE Raise("CalledProcessError")

-----------------------------------------------------------------------------
(* Rendering support *)

Render(app_name, source_type, source, document, error) ==
    [cls |-> "Render", app_name |-> app_name, source_type |-> source_type,
     source |-> source, document |-> document, error |-> error]

\* Extending one list of renders by another, an exception in either escaping.
Extend(a, b) == IF ~a.ok THEN a ELSE IF ~b.ok THEN b ELSE Ok(a.val \o b.val)

Whitespace == {" ", "\n", "\t"}

RECURSIVE lstrip(_, _)
lstrip(s, chars) ==
    IF s # <<>> /\ Head(s) \in chars THEN lstrip(Tail(s), chars) ELSE s

RECURSIVE rstrip(_, _)
rstrip(s, chars) ==
    IF s # <<>> /\ s[Len(s)] \in chars THEN rstrip(SubSeq(s, 1, Len(s) - 1), chars) ELSE s

strip(s) == rstrip(lstrip(s, Whitespace), Whitespace)

\* The characters of a string, as str.lstrip and str.rstrip take them.
Chars(s) == {s[i] : i \in 1..Len(s)}

\* response.text.strip(), .lstrip(f"{YAML_SEPARATOR}\n"), .rstrip(f"\n{YAML_SEPARATOR}")
normalize_body(text) ==
    rstrip(lstrip(strip(text), Chars(YAML_SEPARATOR \o <<"\n">>)),
           Chars(<<"\n">> \o YAML_SEPARATOR))

read_render(bundle, file_path) ==
    LET r == ReadFile(file_path)
    IN  Render(bundle.app_name, "bundle", file_path,
               IF r.ok THEN Str(r.val) ELSE None,
               IF r.ok THEN None ELSE Exception(r.exc))

fetch_render(bundle, url, server) ==
    LET r == HttpGet(url, server)
    IN  Render(bundle.app_name, "bundle", url,
               IF r.ok THEN Str(normalize_body(r.val)) ELSE None,
               IF r.ok THEN None ELSE Exception(r.exc))

\* Process local resources.
render_local(bundle) ==
    LET ps == Bundle_paths(bundle)
    IN  IF ~ps.ok THEN ps
        ELSE Ok([i \in 1..Len(ps.val) |-> read_render(bundle, ps.val[i])])

\* Process remote resources.
render_remote(bundle, server) ==
    LET us == Bundle_urls(bundle)
    IN  IF ~us.ok THEN us
        ELSE Ok([i \in 1..Len(us.val) |-> fetch_render(bundle, us.val[i], server)])

render_bundle_remote_first(bundle, server) ==
    Extend(render_remote(bundle, server), render_local(bundle))

render_bundle(bundle, server) ==
    Extend(render_local(bundle), render_remote(bundle, server))

render_kustomization_keeps_stdout(kustomization) ==
    LET r == run_kustomize_build_cmd(kustomization)
    IN  Ok(<<Render(kustomization.app_name, "kustomization", kustomization.source,
                    IF r.ok THEN Str(r.val) ELSE Str(<<>>),
                    IF r.ok THEN None ELSE Exception(r.exc))>>)

render_kustomization(kustomization) ==
    LET r == run_kustomize_build_cmd(kustomization)
    IN  Ok(<<Render(kustomization.app_name, "kustomization", kustomization.source,
                    IF r.ok THEN Str(r.val) ELSE None,
                    IF r.ok THEN None ELSE Exception(r.exc))>>)

\* The truth value of None or of a str: a non-empty str.
Truthy(obj) == obj.cls = "str" /\ obj.value # <<>>

render_release(release) ==
    LET default_helmfile_path == DefaultHelmfilePath
        helmfile_path == IF Truthy(release.helmfile) THEN release.helmfile.value
                         ELSE default_helmfile_path
        r == run_helmfile_template_cmd(helmfile_path, release.app_name)
    IN  Ok(<<Render(release.app_name, "release", helmfile_path,
                    IF r.ok THEN Str(r.val) ELSE None,
                    IF r.ok THEN None ELSE Exception(r.exc))>>)

\* The descriptors of one kind (field) of the apps named in names, in config
\* order, each with its app_name set; apps are not tested for enabled.
RECURSIVE Collect(_, _, _)
Collect(apps, names, kind) ==
    IF apps = <<>> THEN <<>>
    ELSE LET a == Head(apps)
             own == IF a.name \in names
                    THEN [i \in 1..Len(a.app[kind]) |->
                            [a.app[kind][i] EXCEPT !.app_name = a.name]]
                    ELSE <<>>
         IN  own \o Collect(Tail(apps), names, kind)

\* renders.extend(...) for each descriptor in turn; an exception ends the
\* loop and escapes.
RECURSIVE ExtendAll(_)
ExtendAll(rs) ==
    IF rs = <<>> THEN Ok(<<>>)
    ELSE IF ~Head(rs).ok THEN Head(rs)
    ELSE Extend(Head(rs), ExtendAll(Tail(rs)))

InList(list) == {list[i] : i \in 1..Len(list)}

BundleRenderer_render(cfg, names, types, server) ==
    LET bundles == Collect(cfg, InList(names), "bundles")
    IN  ExtendAll([i \in 1..Len(bundles) |-> render_bundle(bundles[i], server)])

KustomizationRenderer_render(cfg, names, types) ==
    LET kustomizations == Collect(cfg, InList(names), "kustomizations")
    IN  ExtendAll([i \in 1..Len(kustomizations) |-> render_kustomization(kustomizations[i])])

ReleaseRenderer_render(cfg, names, types) ==
    LET releases == Collect(cfg, InList(names), "releases")
    IN  ExtendAll([i \in 1..Len(releases) |-> render_release(releases[i])])

get_renders(cfg, names, types, server) ==
    Extend(BundleRenderer_render(cfg, names, types, server),
           Extend(KustomizationRenderer_render(cfg, names, types),
                  ReleaseRenderer_render(cfg, names, types)))

-----------------------------------------------------------------------------
(* Manifests support *)

Manifest(app_name, source_type, rs) ==
    [cls |-> "Manifest", app_name |-> app_name, source_type |-> source_type,
     renders |-> rs]

RECURSIVE Join(_, _)
Join(sections, sep) ==
    IF sections = <<>> THEN <<>>
    ELSE IF Len(sections) = 1 THEN sections[1]
    ELSE sections[1] \o sep \o Join(Tail(sections), sep)

SectionSeparator == <<"\n">> \o YAML_SEPARATOR \o <<"\n">>

\* [r.document for r in self.renders if r.document]: reading .document of an
\* element that is not a Render is an AttributeError.
Sections(m) ==
    IF \E i \in 1..Len(m.renders) : m.renders[i].cls # "Render"
    THEN Raise("AttributeError")
    ELSE LET kept == SelectSeq(m.renders, LAMBDA r : Truthy(r.document))
         IN  Ok([i \in 1..Len(kept) |-> kept[i].document.value])

Manifest_document(m) ==
    LET sections == Sections(m)
    IN  IF ~sections.ok THEN sections ELSE Ok(Join(sections.val, SectionSeparator))

RenderKey(r) == <<r.app_name, r.source_type>>

\* grouped, a dict in insertion order: a list of [key, items] entries.
RECURSIVE Grouped(_, _)
Grouped(rs, grouped) ==
    IF rs = <<>> THEN grouped
    ELSE LET key == RenderKey(Head(rs))
             known == \E i \in 1..Len(grouped) : grouped[i].key = key
             opened == IF known THEN grouped
                       ELSE Append(grouped, [key |-> key, items |-> <<>>])
             added == [i \in 1..Len(opened) |->
                         IF opened[i].key = key
                         THEN [opened[i] EXCEPT !.items = Append(@, Head(rs).document)]
                         ELSE opened[i]]
         IN  Grouped(Tail(rs), added)

get_manifests(rs) ==
    LET grouped == Grouped(rs, <<>>)
    IN  [i \in 1..Len(grouped) |->
            Manifest(grouped[i].key[1], grouped[i].key[2], grouped[i].items)]

-----------------------------------------------------------------------------
(* The source models and requests the render commands are run on *)

LocalA == RawStr("", <<Lit("a.yaml")>>)
LocalMissing == RawStr("", <<Lit("missing.yaml")>>)
LocalX == RawStr("", <<Field("index", "env"), Lit("/x.yaml")>>)
RemoteB == RawStr("http", <<Lit("//h/b.yaml")>>)
RemoteE == RawStr("http", <<Lit("//h/e.yaml")>>)

SourcePool == {LocalA, LocalMissing, LocalX, RemoteB, RemoteE}

NoData == [k \in {} |-> None]
DataChoices ==
    {NoData,
     [k \in {"env"} |-> RawStr("", <<Lit("prod")>>)],
     [k \in {"env"} |-> RawStr("", <<Field("named", "zone")>>)]}

\* Lists of bundles, none without sources, holding at most n sources in all.
RECURSIVE SourceLists(_)
SourceLists(n) ==
    {<<>>} \cup
    UNION {{<<s>> \o rest : rest \in SourceLists(n - Len(s))} :
              s \in SeqsUpTo(SourcePool, n) \ {<<>>}}

BundleOf(name, data, sources) ==
    [app_name |-> "", bundle_name |-> name, data |-> data, sources |-> sources]

KustomizationOf(source) ==
    [app_name |-> "", kustomization_name |-> "k", source |-> RawStr("", <<Lit(source)>>)]

ReleaseOf(helmfile) ==
    [app_name |-> "", release_name |-> "r", chart_name |-> "c", chart_version |-> "1",
     helmfile |-> helmfile]

App(enabled, releases, bundles, kustomizations) ==
    [enabled |-> enabled, releases |-> releases, bundles |-> bundles,
     kustomizations |-> kustomizations]

AltHelmfilePath == [scheme |-> "", toks |-> <<"alt", HELMFILE_NAME>>]

\* Tool runs of the first app: an "ok" entry is a kustomization that builds
\* and a release whose helmfile override fails, a "bad" entry the reverse.
ToolLists == SeqsUpTo({"ok", "bad"}, MaxTools)

WebApps ==
    {App(enabled,
         [i \in 1..Len(tools) |->
             ReleaseOf(IF tools[i] = "ok" THEN Str(AltHelmfilePath) ELSE None)],
         [i \in 1..Len(srcs) |-> BundleOf("b", data, srcs[i])],
         [i \in 1..Len(tools) |->
             KustomizationOf(IF tools[i] = "ok" THEN "base" ELSE "broken")]) :
        enabled \in BOOLEAN, tools \in ToolLists,
        srcs \in SourceLists(MaxSources), data \in DataChoices}

DbApp ==
    App(TRUE, <<ReleaseOf(None)>>, <<BundleOf("b", NoData, <<LocalA>>)>>,
        <<KustomizationOf("base")>>)

Configs == {<<[name |-> "web", app |-> web], [name |-> "db", app |-> DbApp]>> : web \in WebApps}

Requests ==
    {[app_names |-> <<"web", "db">>, source_types |-> SOURCE_TYPES],
     [app_names |-> <<"web">>, source_types |-> <<"bundle">>],
     [app_names |-> <<"db">>, source_types |-> SOURCE_TYPES]}

NoTree == [exists |-> FALSE]

-----------------------------------------------------------------------------
(* The render commands: get_renders, get_manifests, Manifest.document *)

InitRender ==
    /\ pc = "start"
    /\ config \in Configs
    /\ \E req \in Requests : app_names = req.app_names /\ source_types = req.source_types
    /\ remote = DefaultRemote
    /\ renders = NotRun
    /\ manifests = <<>>
    /\ documents = <<>>
    /\ output_dir = NoTree
    /\ staging_dir = NoTree
    /\ result = NotRun
    /\ paths = <<>>
    /\ calls = <<>>

GetRenders ==
    /\ pc = "start"
    /\ renders' = get_renders(config, app_names, source_types, remote)
    /\ pc' = IF renders'.ok THEN "rendered" ELSE "raised"
    /\ UNCHANGED <<config, app_names, source_types, remote, manifests, documents,
                   output_dir, staging_dir, result, paths, calls>>

GetManifests ==
    /\ pc = "rendered"
    /\ manifests' = get_manifests(renders.val)
    /\ pc' = "grouped"
    /\ UNCHANGED <<config, app_names, source_types, remote, renders, documents,
                   output_dir, staging_dir, result, paths, calls>>

\* preview_cmd: manifest.document for manifest in manifests
Preview ==
    /\ pc = "grouped"
    /\ documents' = [i \in 1..Len(manifests) |-> Manifest_document(manifests[i])]
    /\ pc' = "previewed"
    /\ UNCHANGED <<config, app_names, source_types, remote, renders, manifests,
                   output_dir, staging_dir, result, paths, calls>>

NextRender == GetRenders \/ GetManifests \/ Preview

SpecRender == InitRender /\ [][NextRender]_vars

-----------------------------------------------------------------------------
(* Claims about rendering and grouping *)

AppNamed(name) == (CHOOSE a \in InList(config) : a.name = name).app

\* The renders of rs that carry the key (app_name, source_type), in order.
WithKey(rs, app_name, source_type) ==
    SelectSeq(rs, LAMBDA r : r.app_name = app_name /\ r.source_type = source_type)

NumSources(app) ==
    Len(Concat([i \in 1..Len(app.bundles) |-> app.bundles[i].sources]))
    + Len(app.kustomizations) + Len(app.releases)

\* C1: get_renders returns no Render of an app configured with enabled=false,
\* also when that app is named in the requested app names.
C1_NoRenderOfDisabledApp ==
    renders.ok =>
        \A i \in 1..Len(renders.val) : AppNamed(renders.val[i].app_name).enabled

\* C5: get_renders never raises, and every source of every requested app
\* yields exactly one Render (a failure being captured in that Render).
C5_FailuresCapturedPerSource ==
    pc \in {"rendered", "raised"} =>
        /\ renders.ok
        /\ \A name \in InList(app_names) :
              Len(SelectSeq(renders.val, LAMBDA r : r.app_name = name))
                  = NumSources(AppNamed(name))
        /\ \A i \in 1..Len(renders.val) :
              (renders.val[i].document = None) # (renders.val[i].error = None)

\* C4: Manifest.document of every manifest built by get_manifests is the
\* documents of its successful renders, in render order, joined by "\n---\n".
C4_DocumentJoinsSuccessfulRenders ==
    pc = "previewed" =>
        \A i \in 1..Len(manifests) :
            LET rs == WithKey(renders.val, manifests[i].app_name, manifests[i].source_type)
                good == SelectSeq(rs, LAMBDA r : r.error = None)
            IN  documents[i] =
                    Ok(Join([j \in 1..Len(good) |-> good[j].document.value],
                            SectionSeparator))

\* The addresses of an app's sources of one type, each bundle's sources put
\* in the order pick(sources) gives them.
AddressesIn(app_name, source_type, pick(_)) ==
    LET app == AppNamed(app_name)
    IN  CASE source_type = "bundle" ->
                Concat([i \in 1..Len(app.bundles) |->
                           FormatAll(pick(app.bundles[i].sources),
                                     Bundle_data(app.bundles[i]).val).val])
          [] source_type = "kustomization" ->
                [i \in 1..Len(app.kustomizations) |-> app.kustomizations[i].source]
          [] source_type = "release" ->
                [i \in 1..Len(app.releases) |->
                    IF app.releases[i].helmfile = None THEN DefaultHelmfilePath
                    ELSE app.releases[i].helmfile.value]

AsListed(sources) == sources

LocalThenRemote(sources) ==
    SelectSeq(sources, LAMBDA s : s.scheme # "http")
    \o SelectSeq(sources, LAMBDA s : s.scheme = "http")

\* The entries of every manifest are the outcomes of the app's sources of
\* that type, the sources taken in the order pick gives within each bundle.
ManifestOrderIs(pick(_)) ==
    pc = "grouped" =>
        \A i \in 1..Len(manifests) :
            LET m == manifests[i]
                rs == WithKey(renders.val, m.app_name, m.source_type)
            IN  /\ [j \in 1..Len(rs) |-> rs[j].source]
                       = AddressesIn(m.app_name, m.source_type, pick)
                /\ m.renders = [j \in 1..Len(rs) |-> rs[j].document]

\* C3 (as claimed): inside a manifest the entries follow the declaration
\* order of the app's sources of that type, local path or URL alike.
C3_DeclarationOrder == ManifestOrderIs(AsListed)

\* C3 (amended): inside a manifest the entries follow the bundles in
\* descriptor order and, within a bundle, its local paths in listed order
\* followed by its URLs in listed order, whichever of them failed.
C3_LocalThenRemoteOrder == ManifestOrderIs(LocalThenRemote)

C3_Witness ==
    /\ pc = "grouped"
    /\ \E i \in 1..Len(manifests) :
          /\ manifests[i].app_name = "web" /\ manifests[i].source_type = "bundle"
          /\ Len(manifests[i].renders) >= 2
          /\ \E j \in 1..Len(manifests[i].renders) : manifests[i].renders[j] = None
          /\ \E j \in 1..Len(manifests[i].renders) : manifests[i].renders[j] # None
    /\ \E b \in InList(AppNamed("web").bundles) :
          Len(b.sources) >= 2 /\ b.sources[1].scheme = "http" /\ b.sources[2].scheme # "http"

-----------------------------------------------------------------------------
(* Fetching one remote bundle source, over the bodies the server may send *)

Alphabet == {"-", "\n", " ", "a"}

Wrappers ==
    {<<>>, YAML_SEPARATOR \o <<"\n">>, <<"\n">> \o YAML_SEPARATOR,
     <<" ", "\n">> \o YAML_SEPARATOR \o <<"\n">>, <<"\n">> \o YAML_SEPARATOR \o <<"\n">>}

Bodies ==
    {pre \o core \o post :
        pre \in Wrappers, core \in SeqsUpTo(Alphabet, MaxCoreLen), post \in Wrappers}

FetchConfig ==
    <<[name |-> "web",
       app |-> App(TRUE, <<>>, <<BundleOf("b", NoData, <<RemoteB>>)>>, <<>>)]>>

InitFetch ==
    /\ pc = "start"
    /\ config = FetchConfig
    /\ app_names = <<"web">>
    /\ source_types = <<"bundle">>
    /\ \E status \in {200, 404}, body \in Bodies :
          remote = (<<"//h/b.yaml">> :> [status |-> status, text |-> body])
    /\ renders = NotRun
    /\ manifests = <<>>
    /\ documents = <<>>
    /\ output_dir = NoTree
    /\ staging_dir = NoTree
    /\ result = NotRun
    /\ paths = <<>>
    /\ calls = <<>>

NextFetch == GetRenders

SpecFetch == InitFetch /\ [][NextFetch]_vars

HasPrefix(s, p) == Len(s) >= Len(p) /\ SubSeq(s, 1, Len(p)) = p
HasSuffix(s, p) == Len(s) >= Len(p) /\ SubSeq(s, Len(s) - Len(p) + 1, Len(s)) = p

\* The text without one leading "---" separator line, if it starts with one.
WithoutLeadingSeparator(t) ==
    IF HasPrefix(t, YAML_SEPARATOR \o <<"\n">>) THEN SubSeq(t, Len(YAML_SEPARATOR) + 2, Len(t))
    ELSE IF t = YAML_SEPARATOR THEN <<>>
    ELSE t

\* The text without one trailing "---" separator line, if it ends with one.
WithoutTrailingSeparator(t) ==
    IF HasSuffix(t, <<"\n">> \o YAML_SEPARATOR) THEN SubSeq(t, 1, Len(t) - Len(YAML_SEPARATOR) - 1)
    ELSE IF t = YAML_SEPARATOR THEN <<>>
    ELSE t

\* C9: the document of a fetched body is the body without its leading and
\* trailing whitespace and then without at most one leading and at most one
\* trailing "---" separator line, no other character being removed.
C9_RemoteBodyNormalization ==
    pc = "rendered" =>
        \A i \in 1..Len(renders.val) :
            LET r == renders.val[i]
            IN  (r.source_type = "bundle" /\ r.source.scheme = "http" /\ r.error = None) =>
                    r.document =
                        Str(WithoutTrailingSeparator(WithoutLeadingSeparator(
                                strip(remote[r.source.toks].text))))

-----------------------------------------------------------------------------
(* Directory trees                                                         *)
(*                                                                         *)
(* A directory that exists holds app directories (dirs) and files; the     *)
(* file <dir>/<app_name>/<source_type>.manifest.yaml is keyed by           *)
(* <<app_name, source_type>>.                                              *)

Tree(dirs, files) == [exists |-> TRUE, dirs |-> dirs, files |-> files]
NoFiles == [f \in {} |-> <<>>]

\* TemporaryDirectory(): a fresh, empty directory.
TemporaryDirectory == Tree({}, NoFiles)

rmtree_kept(tree) == tree

\* rmtree(dir, ignore_errors=True): the directory is gone, if it was there.
rmtree(tree) == NoTree

\* makedirs(output_dir), without exist_ok.
makedirs(tree) == IF tree.exists THEN Raise("FileExistsError") ELSE Ok(Tree({}, NoFiles))

\* makedirs(path.dirname(manifest_path), exist_ok=True)
makedirs_exist_ok(tree, app_name) ==
    IF tree.exists THEN [tree EXCEPT !.dirs = @ \cup {app_name}]
    ELSE Tree({app_name}, NoFiles)

WriteFile(tree, key, text) == [tree EXCEPT !.files = (key :> text) @@ @]

Manifest_file_path(m, dir_name) == <<dir_name, m.app_name, m.source_type>>

\* Manifest.save into the directory named dir_name, whose tree is tree: the
\* tree it leaves and the path it returns (or what it raises).
Manifest_save(m, dir_name, tree) ==
    LET manifest_path == Manifest_file_path(m, dir_name)
        key == <<manifest_path[2], manifest_path[3]>>
        opened == WriteFile(makedirs_exist_ok(tree, manifest_path[2]), key, <<>>)
        sections == Sections(m)
    IN  IF ~sections.ok THEN [tree |-> opened, result |-> sections]
        ELSE [tree |-> WriteFile(opened, key, Join(sections.val, SectionSeparator)),
              result |-> Ok(manifest_path)]

\* [manifest.save(output_dir) for manifest in manifests]
RECURSIVE save_manifests(_, _, _)
save_manifests(ms, dir_name, tree) ==
    IF ms = <<>> THEN [tree |-> tree, result |-> Ok(<<>>)]
    ELSE LET first == Manifest_save(Head(ms), dir_name, tree)
         IN  IF ~first.result.ok THEN first
             ELSE LET rest == save_manifests(Tail(ms), dir_name, first.tree)
                  IN  IF ~rest.result.ok THEN rest
                      ELSE [tree |-> rest.tree,
                            result |-> Ok(<<first.result.val>> \o rest.result.val)]

\* diff -r -u a b: 0 when the trees are identical, 1 when they differ, 2 on
\* trouble (a directory that does not exist).
DiffCmd(a, b) == IF ~a.exists \/ ~b.exists THEN 2 ELSE IF a = b THEN 0 ELSE 1

\* The order of path strings, by the names that follow the common prefix.
NameOrder == <<"bundle", "db", "kustomization", "old", "release", "web">>
NameRank(name) == CHOOSE i \in 1..Len(NameOrder) : NameOrder[i] = name
PathLess(p, q) ==
    \/ NameRank(p[2]) < NameRank(q[2])
    \/ p[2] = q[2] /\ NameRank(p[3]) < NameRank(q[3])

RECURSIVE Insert(_, _)
Insert(p, ps) ==
    IF ps = <<>> THEN <<p>>
    ELSE IF PathLess(Head(ps), p) THEN <<Head(ps)>> \o Insert(p, Tail(ps))
    ELSE <<p>> \o ps

unsorted(ps) == ps

RECURSIVE sorted(_)
sorted(ps) == IF ps = <<>> THEN <<>> ELSE Insert(Head(ps), sorted(Tail(ps)))

-----------------------------------------------------------------------------
(* The reconcile commands: diff_manifests and update_manifests             *)

OUTPUT_DIR == "out"
STAGING_DIR == "tmp"

LocalAddr == [scheme |-> "", toks |-> <<"a.yaml">>]

RenderPool ==
    {Render("web", "bundle", LocalAddr, Str(<<"A">>), None),
     Render("web", "bundle", LocalAddr, Str(<<"B">>), None),
     Render("web", "bundle", LocalAddr, None, Exception("FileNotFoundError")),
     Render("db", "release", DefaultHelmfilePath, Str(<<"R">>), None)}

RenderLists == SeqsUpTo(RenderPool, MaxRenders)

\* Manifest(app_name, source_type, renders) with renders a list[Render], as
\* the class declares it: one per key, in first-seen order.
ManifestsOf(rs) ==
    LET ms == get_manifests(rs)
    IN  [i \in 1..Len(ms) |->
            Manifest(ms[i].app_name, ms[i].source_type,
                     WithKey(rs, ms[i].app_name, ms[i].source_type))]

ManifestLists == {get_manifests(rs) : rs \in RenderLists} \cup {ManifestsOf(rs) : rs \in RenderLists}

OutputTrees ==
    {NoTree,
     Tree({}, NoFiles),
     Tree({"old"}, (<<"old", "release">> :> <<"Z">>)),
     Tree({"web"}, (<<"web", "bundle">> :> <<"A">>))}

InitReconcile ==
    /\ pc = "idle"
    /\ manifests \in ManifestLists
    /\ output_dir \in OutputTrees
    /\ staging_dir = NoTree
    /\ result = NotRun
    /\ paths = <<>>
    /\ calls = <<>>
    /\ config = <<>>
    /\ app_names = <<>>
    /\ source_types = <<>>
    /\ remote = DefaultRemote
    /\ renders = NotRun
    /\ documents = <<>>

Returned(op, res, tree) == [op |-> op, result |-> res, tree |-> tree]

RenderState == <<config, app_names, source_types, remote, renders, documents>>

\* with TemporaryDirectory() as staging_dir: save_manifests(manifests, staging_dir)
\* An exception leaves the with block, which removes the directory.
DiffStage ==
    /\ pc = "idle"
    /\ Len(calls) < MaxCalls
    /\ LET staged == save_manifests(manifests, STAGING_DIR, TemporaryDirectory)
       IN  IF staged.result.ok
           THEN /\ staging_dir' = staged.tree
                /\ pc' = "diff_staged"
                /\ calls' = calls
           ELSE /\ staging_dir' = rmtree(staged.tree)
                /\ pc' = "idle"
                /\ calls' = Append(calls, Returned("diff", staged.result, output_dir))
    /\ result' = NotRun
    /\ paths' = <<>>
    /\ UNCHANGED <<manifests, output_dir, RenderState>>

\* The end of the with block: TemporaryDirectory removes the directory.
DiffLeaveWith ==
    /\ pc = "diff_staged"
    /\ staging_dir' = rmtree(staging_dir)
    /\ pc' = "diff_compare"
    /\ UNCHANGED <<manifests, output_dir, result, paths, calls, RenderState>>

\* run(f"diff -r -u {staging_dir} {output_dir}")
DiffCompare ==
    /\ pc = "diff_compare"
    /\ result' = Ok(DiffCmd(staging_dir, output_dir))
    /\ pc' = "diff_cleanup"
    /\ UNCHANGED <<manifests, output_dir, staging_dir, paths, calls, RenderState>>

DiffCleanupOutputDir ==
    /\ pc = "diff_cleanup"
    /\ output_dir' = rmtree(output_dir)
    /\ calls' = Append(calls, Returned("diff", result, output_dir'))
    /\ pc' = "idle"
    /\ UNCHANGED <<manifests, staging_dir, result, paths, RenderState>>

\* rmtree(staging_dir, ignore_errors=True); return diff_output.returncode
DiffCleanup ==
    /\ pc = "diff_cleanup"
    /\ staging_dir' = rmtree(staging_dir)
    /\ calls' = Append(calls, Returned("diff", result, output_dir))
    /\ pc' = "idle"
    /\ UNCHANGED <<manifests, output_dir, result, paths, RenderState>>

UpdateStageIntoOutputDir ==
    /\ pc = "idle"
    /\ Len(calls) < MaxCalls
    /\ LET staged == save_manifests(manifests, OUTPUT_DIR, output_dir)
       IN  /\ output_dir' = staged.tree
           /\ IF staged.result.ok
              THEN /\ staging_dir' = TemporaryDirectory
                   /\ pc' = "update_staged"
                   /\ calls' = calls
              ELSE /\ staging_dir' = NoTree
                   /\ pc' = "idle"
                   /\ calls' = Append(calls, Returned("update", staged.result, staged.tree))
    /\ result' = NotRun
    /\ paths' = <<>>
    /\ UNCHANGED <<manifests, RenderState>>

\* with TemporaryDirectory() as staging_dir: save_manifests(manifests, staging_dir)
\* An exception leaves the with block, which removes the directory.
UpdateStage ==
    /\ pc = "idle"
    /\ Len(calls) < MaxCalls
    /\ LET staged == save_manifests(manifests, STAGING_DIR, TemporaryDirectory)
       IN  IF staged.result.ok
           THEN /\ staging_dir' = staged.tree
                /\ pc' = "update_staged"
                /\ calls' = calls
           ELSE /\ staging_dir' = rmtree(staged.tree)
                /\ pc' = "idle"
                /\ calls' = Append(calls, Returned("update", staged.result, output_dir))
    /\ result' = NotRun
    /\ paths' = <<>>
    /\ UNCHANGED <<manifests, output_dir, RenderState>>

\* The end of the with block: TemporaryDirectory removes the directory.
UpdateLeaveWith ==
    /\ pc = "update_staged"
    /\ staging_dir' = rmtree(staging_dir)
    /\ pc' = "update_destroy"
    /\ UNCHANGED <<manifests, output_dir, result, paths, calls, RenderState>>

\* rmtree(output_dir, ignore_errors=True); makedirs(output_dir)
UpdateDestroy ==
    /\ pc = "update_destroy"
    /\ LET made == makedirs(rmtree(output_dir))
       IN  IF made.ok
           THEN /\ output_dir' = made.val
                /\ pc' = "update_repopulate"
                /\ calls' = calls
           ELSE /\ output_dir' = rmtree(output_dir)
                /\ pc' = "idle"
                /\ calls' = Append(calls, Returned("update", made, output_dir'))
    /\ UNCHANGED <<manifests, staging_dir, result, paths, RenderState>>

\* paths = save_manifests(manifests, output_dir)
UpdateRepopulate ==
    /\ pc = "update_repopulate"
    /\ LET saved == save_manifests(manifests, OUTPUT_DIR, output_dir)
       IN  /\ output_dir' = saved.tree
           /\ IF saved.result.ok
              THEN /\ paths' = saved.result.val
                   /\ pc' = "update_cleanup"
                   /\ calls' = calls
              ELSE /\ paths' = paths
                   /\ pc' = "idle"
                   /\ calls' = Append(calls, Returned("update", saved.result, saved.tree))
    /\ UNCHANGED <<manifests, staging_dir, result, RenderState>>

\* rmtree(staging_dir, ignore_errors=True); return sorted(paths)
UpdateCleanup ==
    /\ pc = "update_cleanup"
    /\ staging_dir' = rmtree(staging_dir)
    /\ result' = Ok(sorted(paths))
    /\ calls' = Append(calls, Returned("update", result', output_dir))
    /\ pc' = "idle"
    /\ UNCHANGED <<manifests, output_dir, paths, RenderState>>

NextReconcile ==
    \/ DiffStage \/ DiffLeaveWith \/ DiffCompare \/ DiffCleanup
    \/ UpdateStage \/ UpdateLeaveWith \/ UpdateDestroy \/ UpdateRepopulate \/ UpdateCleanup

SpecReconcile == InitReconcile /\ [][NextReconcile]_vars

-----------------------------------------------------------------------------
(* Claims about diff_manifests and update_manifests *)

ManifestKeys == {<<manifests[i].app_name, manifests[i].source_type>> : i \in 1..Len(manifests)}

\* The documents of a manifest's successfully rendered Renders, joined.
JoinedDocument(m) ==
    LET good == SelectSeq(m.renders, LAMBDA r : r.error = None)
    IN  Join([j \in 1..Len(good) |-> good[j].document.value], SectionSeparator)

\* C2: a Diff that immediately follows a successful Update of the same
\* manifests into the same output directory returns exit status 0.
C2_DiffAfterUpdateReportsNothing ==
    \A i \in 1..(Len(calls) - 1) :
        (calls[i].op = "update" /\ calls[i].result.ok /\ calls[i + 1].op = "diff") =>
            calls[i + 1].result = Ok(0)

IsDiffStep ==
    \/ pc \in {"diff_staged", "diff_compare", "diff_cleanup"}
    \/ pc' \in {"diff_staged", "diff_compare", "diff_cleanup"}
    \/ Len(calls') > Len(calls) /\ calls'[Len(calls')].op = "diff"

\* C6: no step of diff_manifests changes the live output directory, whether
\* the call returns or raises.
C6_DiffLeavesOutputDir == [][IsDiffStep => output_dir' = output_dir]_vars

C6_Witness ==
    /\ manifests # <<>>
    /\ output_dir.exists /\ DOMAIN output_dir.files # {}
    /\ \E i \in 1..Len(calls) : calls[i].op = "diff" /\ calls[i].result.ok

\* C7: after a successful update_manifests the output directory holds
\* exactly one file per manifest, at <app_name>/<source_type>.manifest.yaml
\* with the manifest's joined document, and nothing that was there before;
\* the value returned is the sorted list of exactly those paths.
C7_UpdateWritesExactlyTheManifests ==
    \A i \in 1..Len(calls) :
        (calls[i].op = "update" /\ calls[i].result.ok) =>
            LET tree == calls[i].tree
                returned == calls[i].result.val
            IN  /\ tree.exists
                /\ DOMAIN tree.files = ManifestKeys
                /\ tree.dirs = {key[1] : key \in ManifestKeys}
                /\ \A j \in 1..Len(manifests) :
                      tree.files[<<manifests[j].app_name, manifests[j].source_type>>]
                          = JoinedDocument(manifests[j])
                /\ Len(returned) = Len(manifests)
                /\ InList(returned) = {<<OUTPUT_DIR, key[1], key[2]>> : key \in ManifestKeys}
                /\ \A j \in 1..(Len(returned) - 1) : PathLess(returned[j], returned[j + 1])

C7_Witness ==
    /\ Len(manifests) >= 2
    /\ \E j \in 1..Len(manifests) : Len(manifests[j].renders) >= 2
    /\ Len(calls) = 1 /\ calls[1].op = "update" /\ calls[1].result.ok
    /\ <<"old", "release">> \notin DOMAIN calls[1].tree.files
    /\ calls[1].result.val[1][2] = "db"

\* C8: two update_manifests calls in succession with the same manifests
\* leave the same output tree and end the same way (the same path list).
C8_UpdateIsIdempotent ==
    \A i \in 1..(Len(calls) - 1) :
        (calls[i].op = "update" /\ calls[i + 1].op = "update") =>
            /\ calls[i + 1].tree = calls[i].tree
            /\ calls[i + 1].result = calls[i].result

C8_Witness ==
    /\ manifests # <<>>
    /\ Len(calls) >= 2
    /\ calls[1].op = "update" /\ calls[1].result.ok
    /\ calls[2].op = "update" /\ calls[2].result.ok
    /\ DOMAIN calls[2].tree.files # {}

\* C10: when the recursive diff is about to run, the staging directory
\* still exists and holds every manifest file save_manifests wrote.
C10_StagingExistsWhenCompared ==
    pc = "diff_compare" =>
        /\ staging_dir.exists
        /\ ManifestKeys \subseteq DOMAIN staging_dir.files

-----------------------------------------------------------------------------
(* Further claims *)

StagingFails == ~save_manifests(manifests, STAGING_DIR, TemporaryDirectory).result.ok

IsUpdateStep ==
    \/ pc \in {"update_staged", "update_destroy", "update_repopulate", "update_cleanup"}
    \/ pc' \in {"update_staged", "update_destroy", "update_repopulate", "update_cleanup"}
    \/ Len(calls') > Len(calls) /\ calls'[Len(calls')].op = "update"

\* C11: when the first save_manifests pass, into the staging directory,
\* fails, update_manifests raises and no step of it changes the live output
\* directory; the output directory is destroyed only after staging succeeded.
C11_FailedStagingLeavesOutputDir ==
    [][/\ (IsUpdateStep /\ StagingFails) =>
            /\ output_dir' = output_dir
            /\ pc' = "idle"
            /\ ~calls'[Len(calls')].result.ok
       /\ (IsUpdateStep /\ output_dir' # output_dir) => ~StagingFails]_vars

C11_Witness ==
    /\ StagingFails
    /\ output_dir.exists /\ DOMAIN output_dir.files # {}
    /\ \E i \in 1..Len(calls) : calls[i].op = "update" /\ ~calls[i].result.ok

\* The keys of rs in first-seen order.
RECURSIVE FirstSeenKeys(_, _)
FirstSeenKeys(rs, seen) ==
    IF rs = <<>> THEN seen
    ELSE FirstSeenKeys(Tail(rs),
                       IF RenderKey(Head(rs)) \in InList(seen) THEN seen
                       ELSE Append(seen, RenderKey(Head(rs))))

\* C12: get_manifests returns one Manifest per distinct (app_name,
\* source_type) key, in first-seen key order, whose renders are the input
\* Renders carrying that key, in input order, failed Renders included.
C12_ManifestsPartitionRenders ==
    pc = "grouped" =>
        LET keys == FirstSeenKeys(renders.val, <<>>)
        IN  /\ Len(manifests) = Len(keys)
            /\ \A i \in 1..Len(manifests) :
                  /\ <<manifests[i].app_name, manifests[i].source_type>> = keys[i]
                  /\ Len(manifests[i].renders) = Len(WithKey(renders.val, keys[i][1], keys[i][2]))
                  /\ \A j \in 1..Len(manifests[i].renders) :
                        /\ manifests[i].renders[j].cls = "Render"
                        /\ manifests[i].renders[j]
                               = WithKey(renders.val, keys[i][1], keys[i][2])[j]

\* Whether the collaborator a Render's source goes to answers.
SourceRenders(r) ==
    CASE r.source_type = "bundle" ->
            IF r.source.scheme = "http" THEN HttpGet(r.source, remote).ok
            ELSE ReadFile(r.source).ok
      [] r.source_type = "kustomization" ->
            run_kustomize_build_cmd([source |-> r.source]).ok
      [] r.source_type = "release" ->
            run_helmfile_template_cmd(r.source, r.app_name).ok

\* C13: every Render a renderer returns has exactly one of document and
\* error set: the document alone when its source rendered, the error alone
\* when it failed.
C13_ExactlyOneOfDocumentAndError ==
    renders.ok =>
        \A i \in 1..Len(renders.val) :
            LET r == renders.val[i]
            IN  /\ (r.document = None) # (r.error = None)
                /\ SourceRenders(r) <=> r.error = None

C13_Witness ==
    /\ renders.ok
    /\ \A t \in {"bundle", "kustomization"} :
          /\ \E i \in 1..Len(renders.val) :
                /\ renders.val[i].source_type = t
                /\ renders.val[i].document # None /\ renders.val[i].error = None
          /\ \E i \in 1..Len(renders.val) :
                /\ renders.val[i].source_type = t
                /\ renders.val[i].document = None /\ renders.val[i].error # None
    /\ \E i \in 1..Len(renders.val) :
          /\ renders.val[i].source_type = "release"
          /\ renders.val[i].document # None /\ renders.val[i].error = None

====
